---- MODULE Spec2Model ----
(***************************************************************************)
(* Model of the Fracttal odometer updater: the update pipeline            *)
(* (UpdateWorker.run), the remote meter client (FracttalAPI), the value   *)
(* calculator (calculate_value_to_add) and the status write-back          *)
(* (mark_status), with the two UI handlers that start and finish a run.   *)
(*                                                                         *)
(* Text is a sequence of one-character strings.  A Python float is an     *)
(* exact rational [k |-> "num", n, d] in lowest terms, or the non-finite  *)
(* values [k |-> "nan"] and [k |-> "inf", neg]; binary rounding is not    *)
(* modelled.  A spreadsheet cell as pandas hands it to the code is        *)
(* [t |-> "nan"] (empty cell), [t |-> "str", s |-> text] (text, or a      *)
(* number written as Python prints it) or [t |-> "absent"] (the frame has *)
(* no such column, so row.get returns its default).  The workbook has one *)
(* sheet, so the sheet pandas reads is the sheet openpyxl has active.     *)
(***************************************************************************)
EXTENDS Integers, Sequences, FiniteSets, TLC

(***************************************************************************)
(* Text                                                                    *)
(***************************************************************************)
LowerChars == << "a","b","c","d","e","f","g","h","i","j","k","l","m",
                 "n","o","p","q","r","s","t","u","v","w","x","y","z" >>

UpperChars == << "A","B","C","D","E","F","G","H","I","J","K","L","M",
                 "N","O","P","Q","R","S","T","U","V","W","X","Y","Z" >>

DigitChars == << "0","1","2","3","4","5","6","7","8","9" >>

IsSpace(c) == c = " "

IsDigit(c) == \E i \in 1..10 : DigitChars[i] = c

DigitVal(c) == (CHOOSE i \in 1..10 : DigitChars[i] = c) - 1

UpperChar(c) ==
    IF \E i \in 1..26 : LowerChars[i] = c
    THEN UpperChars[CHOOSE i \in 1..26 : LowerChars[i] = c]
    ELSE c

LowerChar(c) ==
    IF \E i \in 1..26 : UpperChars[i] = c
    THEN LowerChars[CHOOSE i \in 1..26 : UpperChars[i] = c]
    ELSE c

\* str.upper()
Upper(s) == [i \in 1..Len(s) |-> UpperChar(s[i])]

\* str.lower(), used by float() for its case-insensitive literals
Lower(s) == [i \in 1..Len(s) |-> LowerChar(s[i])]

RECURSIVE LStrip(_)
LStrip(s) == IF s # << >> /\ IsSpace(Head(s)) THEN LStrip(Tail(s)) ELSE s

RECURSIVE RStrip(_)
RStrip(s) ==
    IF s # << >> /\ IsSpace(s[Len(s)]) THEN RStrip(SubSeq(s, 1, Len(s) - 1)) ELSE s

\* str.strip()
Strip(s) == RStrip(LStrip(s))

\* str.replace(a, b) for single characters
Replace(s, a, b) == [i \in 1..Len(s) |-> IF s[i] = a THEN b ELSE s[i]]

\* str.split(sep) for a single-character separator: always at least one part
RECURSIVE Split(_, _)
Split(s, sep) ==
    IF \E i \in 1..Len(s) : s[i] = sep
    THEN LET p == CHOOSE i \in 1..Len(s) :
                      s[i] = sep /\ \A j \in 1..(i - 1) : s[j] # sep
         IN  << SubSeq(s, 1, p - 1) >> \o Split(SubSeq(s, p + 1, Len(s)), sep)
    ELSE << s >>

AllDigits(s) == s # << >> /\ \A i \in 1..Len(s) : IsDigit(s[i])

RECURSIVE DigitsVal(_)
DigitsVal(s) ==
    IF s = << >> THEN 0
    ELSE 10 * DigitsVal(SubSeq(s, 1, Len(s) - 1)) + DigitVal(s[Len(s)])

RECURSIVE Pow10(_)
Pow10(k) == IF k = 0 THEN 1 ELSE 10 * Pow10(k - 1)

(***************************************************************************)
(* Numbers                                                                 *)
(***************************************************************************)
Abs(x) == IF x < 0 THEN 0 - x ELSE x

RECURSIVE Gcd(_, _)
Gcd(a, b) == IF b = 0 THEN a ELSE Gcd(b, a % b)

NaN == [k |-> "nan"]

Inf(neg) == [k |-> "inf", neg |-> neg]

\* the rational n/d, d > 0, in lowest terms
Rat(n, d) ==
    LET g == Gcd(Abs(n), d)
    IN  [k |-> "num", n |-> n \div g, d |-> d \div g]

Num(n) == Rat(n, 1)

\* float addition: nan absorbs, then inf
AddF(a, b) ==
    IF a.k = "nan" \/ b.k = "nan" THEN NaN
    ELSE IF a.k = "inf" /\ b.k = "inf" THEN (IF a.neg = b.neg THEN a ELSE NaN)
    ELSE IF a.k = "inf" THEN a
    ELSE IF b.k = "inf" THEN b
    ELSE Rat(a.n * b.d + b.n * a.d, a.d * b.d)

\* Mutant: the zero test is missing
IsZero_Unchecked(x) == FALSE

\* x == 0 on floats: false for nan and inf
IsZero(x) == x.k = "num" /\ x.n = 0

\* json.dumps(..., allow_nan=False) accepts the value
IsFinite(x) == x.k = "num"

ValueError == [k |-> "ValueError"]

\* int(str): optional surrounding blanks, optional sign, decimal digits
ParseInt(s) ==
    LET t    == Strip(s)
        sgn  == t # << >> /\ (Head(t) = "-" \/ Head(t) = "+")
        body == IF sgn THEN Tail(t) ELSE t
    IN  IF AllDigits(body)
        THEN Num(IF sgn /\ Head(t) = "-" THEN 0 - DigitsVal(body) ELSE DigitsVal(body))
        ELSE ValueError

\* the unsigned decimal part of a float literal: digits [. [digits]] | . digits
ParseMantissa(m) ==
    LET parts == Split(m, ".")
    IN  IF Len(parts) = 1
        THEN IF AllDigits(m) THEN Num(DigitsVal(m)) ELSE ValueError
        ELSE IF Len(parts) = 2
                /\ (parts[1] # << >> \/ parts[2] # << >>)
                /\ (parts[1] = << >> \/ AllDigits(parts[1]))
                /\ (parts[2] = << >> \/ AllDigits(parts[2]))
        THEN Rat(DigitsVal(parts[1]) * Pow10(Len(parts[2])) + DigitsVal(parts[2]),
                 Pow10(Len(parts[2])))
        ELSE ValueError

\* mantissa with an optional exponent: m [ (e|E) [sign] digits ]
ParseUnsigned(u) ==
    LET parts == Split(Lower(u), "e")
    IN  IF Len(parts) = 1 THEN ParseMantissa(u)
        ELSE IF Len(parts) = 2
        THEN LET m == ParseMantissa(parts[1])
                 e == parts[2]
                 esgn == e # << >> /\ (Head(e) = "-" \/ Head(e) = "+")
                 ebody == IF esgn THEN Tail(e) ELSE e
             IN  IF m.k = "num" /\ AllDigits(ebody)
                 THEN IF esgn /\ Head(e) = "-"
                      THEN Rat(m.n, m.d * Pow10(DigitsVal(ebody)))
                      ELSE Rat(m.n * Pow10(DigitsVal(ebody)), m.d)
                 ELSE ValueError
        ELSE ValueError

T_nan == << "n","a","n" >>

T_inf == << "i","n","f" >>

T_infinity == << "i","n","f","i","n","i","t","y" >>

\* float(str): blanks stripped, optional sign, then nan, inf, infinity
\* (any case) or a decimal literal
ParseFloat(s) ==
    LET t    == Strip(s)
        sgn  == t # << >> /\ (Head(t) = "-" \/ Head(t) = "+")
        neg  == sgn /\ Head(t) = "-"
        body == IF sgn THEN Tail(t) ELSE t
        low  == Lower(body)
    IN  IF low = T_nan THEN NaN
        ELSE IF low = T_inf \/ low = T_infinity THEN Inf(neg)
        ELSE LET u == ParseUnsigned(body)
             IN  IF u.k = "num" THEN (IF neg THEN Rat(0 - u.n, u.d) ELSE u)
                 ELSE ValueError

(***************************************************************************)
(* Cells and rows                                                          *)
(***************************************************************************)
NaNCell == [t |-> "nan"]

Absent == [t |-> "absent"]

Txt(s) == [t |-> "str", s |-> s]

\* str(value) of a cell
PyStr(c) == IF c.t = "nan" THEN T_nan ELSE c.s

\* str(row.get(col, default)): the default only when the column is missing
RowGetStr(c, default) == IF c.t = "absent" THEN default ELSE PyStr(c)

T_OK == << "O","K" >>

T_Estado == << "E","s","t","a","d","o" >>

T_Camiones == << "C","a","m","i","o","n","e","s" >>

T_FlotaLiviana == << "F","l","o","t","a"," ","L","i","v","i","a","n","a" >>

T_Maquinarias == << "M","a","q","u","i","n","a","r","i","a","s" >>

T_Km == << "K","m" >>

T_Horas == << "H","o","r","a","s" >>

T_Desconocido == << "D","e","s","c","o","n","o","c","i","d","o" >>

\* Mutant: the machinery branch drops the minutes
calculate_value_to_add_HoursOnly(row) ==
    LET categoria == Strip(RowGetStr(row.Categoria, << >>))
    IN  IF categoria = T_Camiones \/ categoria = T_FlotaLiviana
        THEN LET valor == ParseFloat(Replace(RowGetStr(row.Km, << "0" >>), ",", "."))
             IN  IF valor.k = "ValueError"
                 THEN [delta |-> Num(0), unit |-> T_Km]
                 ELSE [delta |-> valor, unit |-> T_Km]
        ELSE IF categoria = T_Maquinarias
        THEN LET tiempo == Strip(RowGetStr(row.Tiempo, << "0", ":", "0", "0" >>))
                 parts  == Split(tiempo, ":")
                 horas  == ParseInt(parts[1])
             IN  IF horas.k = "ValueError"
                 THEN [delta |-> Num(0), unit |-> T_Horas]
                 ELSE [delta |-> horas, unit |-> T_Horas]
        ELSE [delta |-> Num(0), unit |-> T_Desconocido]

\* calculate_value_to_add(row) -> (delta, unit)
calculate_value_to_add(row) ==
    LET categoria == Strip(RowGetStr(row.Categoria, << >>))
    IN  IF categoria = T_Camiones \/ categoria = T_FlotaLiviana
        THEN LET valor == ParseFloat(Replace(RowGetStr(row.Km, << "0" >>), ",", "."))
             IN  IF valor.k = "ValueError"
                 THEN [delta |-> Num(0), unit |-> T_Km]
                 ELSE [delta |-> valor, unit |-> T_Km]
        ELSE IF categoria = T_Maquinarias
        THEN LET tiempo  == Strip(RowGetStr(row.Tiempo, << "0", ":", "0", "0" >>))
                 parts   == Split(tiempo, ":")
                 horas   == ParseInt(parts[1])
                 minutos == IF Len(parts) > 1 THEN ParseInt(parts[2]) ELSE Num(0)
             IN  IF horas.k = "ValueError" \/ minutos.k = "ValueError"
                 THEN [delta |-> Num(0), unit |-> T_Horas]
                 ELSE [delta |-> AddF(horas, Rat(minutos.n, 60)), unit |-> T_Horas]
        ELSE [delta |-> Num(0), unit |-> T_Desconocido]

\* get_interno_and_categoria(row) -> (interno, categoria)
get_interno_and_categoria(row) ==
    [interno   |-> Strip(RowGetStr(row.Interno, << >>)),
     categoria |-> Strip(RowGetStr(row.Categoria, << >>))]

\* Mutant: only the empty identifier is recognised, "nan" is not
NoIdentifier_EmptyOnly(interno) == interno = << >>

\* gui.py line 84: `not interno or interno == "nan"`
NoIdentifier(interno) == interno = << >> \/ interno = T_nan

\* Mutant: the status is compared without upper()
EstadoIsOK_CaseSensitive(row) == Strip(RowGetStr(row.Estado, << >>)) = T_OK

\* gui.py lines 90-91: str(row.get("Estado", "")).strip().upper() == "OK"
EstadoIsOK(row) == Upper(Strip(RowGetStr(row.Estado, << >>))) = T_OK

(***************************************************************************)
(* The workbook, the remote platform and the inputs                        *)
(***************************************************************************)
\* largest number of data rows in the report
MaxRows == 2

\* largest number of runs started from the window
MaxRuns == 2

\* pd.read_excel(filepath, header=8): eight rows skipped, then the header
HeaderArg == 8

\* mark_status: header_row = 9 (1-based sheet row of the header)
header_row == 9

T_ER1 == << "E","R","1" >>

T_ER2 == << "E","R","2" >>

Assets == {T_ER1, T_ER2}

Row(interno, categoria, km, tiempo, estado) ==
    [Interno |-> interno, Categoria |-> categoria, Km |-> km,
     Tiempo |-> tiempo, Estado |-> estado]

\* a sheet row whose cells are all empty
BlankRow == Row(NaNCell, NaNCell, NaNCell, NaNCell, NaNCell)

\* the data rows the report is drawn from
ReportRows ==
    { Row(Txt(T_ER1), Txt(T_Camiones), Txt(<< "5","0" >>), NaNCell, NaNCell),
      Row(Txt(T_ER2), Txt(T_Maquinarias), NaNCell, Txt(<< "1",":","4","5" >>), NaNCell),
      Row(Txt(T_ER1), Txt(T_FlotaLiviana), Txt(<< "1",",","5" >>), NaNCell,
          Txt(<< "E","R","R" >>)),
      Row(Txt(T_ER1), Txt(T_Camiones), NaNCell, NaNCell, NaNCell),
      Row(Txt(T_ER1), Txt(T_Camiones), Txt(<< "a","b","c" >>), NaNCell, NaNCell),
      Row(Txt(T_ER2), Txt(T_Maquinarias), NaNCell, Txt(<< "a","b","c" >>), NaNCell),
      Row(Txt(T_ER2), Txt(T_Maquinarias), Txt(<< "5","0" >>), NaNCell, NaNCell),
      Row(Txt(T_ER1), Txt(<< "O","t","r","o","s" >>), Txt(<< "5","0" >>), NaNCell, NaNCell),
      Row(Txt(T_ER1), Txt(T_Camiones), Txt(<< "5","0" >>), NaNCell, Txt(T_OK)),
      Row(Txt(<< " ","E","R","2"," " >>), Txt(T_Maquinarias), NaNCell,
          Txt(<< "1",":","4","5" >>), Txt(<< " ","o","k"," " >>)),
      Row(Txt(<< " " >>), Txt(T_Camiones), Txt(<< "5","0" >>), NaNCell, NaNCell),
      Row(NaNCell, Txt(T_Maquinarias), NaNCell, Txt(<< "1",":","4","5" >>), Txt(T_OK)),
      Row(Txt(T_nan), Txt(T_Camiones), Txt(<< "5","0" >>), NaNCell, Txt(T_OK)),
      Row(Txt(T_ER1), Txt(T_Camiones), Txt(<< "0" >>), NaNCell, NaNCell) }

RECURSIVE SeqsUpTo(_, _)
SeqsUpTo(S, n) ==
    IF n = 0 THEN { << >> }
    ELSE LET shorter == SeqsUpTo(S, n - 1)
         IN  shorter \cup { Append(q, x) : q \in { r \in shorter : Len(r) = n - 1 }, x \in S }

\* the data rows of the reports that are run more than once
RerunRows ==
    { Row(Txt(T_ER1), Txt(T_Camiones), Txt(<< "5","0" >>), NaNCell, NaNCell),
      Row(Txt(T_ER1), Txt(T_Camiones), NaNCell, NaNCell, NaNCell),
      Row(Txt(T_ER1), Txt(T_Camiones), Txt(<< "5","0" >>), NaNCell, Txt(T_OK)),
      Row(NaNCell, Txt(T_Maquinarias), NaNCell, Txt(<< "1",":","4","5" >>), Txt(T_OK)) }

\* one data row for each way a row can go through the loop: updated (Km and
\* hours), not-a-number delta, zero delta (unknown category, zero distance),
\* already processed, no identifier (empty cell, blank text)
RowKinds ==
    { Row(Txt(T_ER1), Txt(T_Camiones), Txt(<< "5","0" >>), NaNCell, NaNCell),
      Row(Txt(T_ER2), Txt(T_Maquinarias), NaNCell, Txt(<< "1",":","4","5" >>), NaNCell),
      Row(Txt(T_ER1), Txt(T_Camiones), NaNCell, NaNCell, NaNCell),
      Row(Txt(T_ER1), Txt(<< "O","t","r","o","s" >>), Txt(<< "5","0" >>), NaNCell, NaNCell),
      Row(Txt(T_ER1), Txt(T_Camiones), Txt(<< "0" >>), NaNCell, NaNCell),
      Row(Txt(T_ER1), Txt(T_Camiones), Txt(<< "5","0" >>), NaNCell, Txt(T_OK)),
      Row(NaNCell, Txt(T_Maquinarias), NaNCell, Txt(<< "1",":","4","5" >>), Txt(T_OK)),
      Row(Txt(<< " " >>), Txt(T_Camiones), Txt(<< "5","0" >>), NaNCell, NaNCell) }

\* the columns of the report that the code reads, in sheet order
DataColumns == << "Interno", "Categoria", "Km", "Tiempo" >>

\* a workbook: rows[j] is the sheet row header_row + j, max_column is the
\* sheet's last column with a cell, estado_cols the columns whose header cell
\* reads "Estado" once trimmed; the status cells are those of the first such
\* column
Book(rows, withEstado) ==
    [rows        |-> rows,
     max_column  |-> IF withEstado THEN Len(DataColumns) + 1 ELSE Len(DataColumns),
     estado_cols |-> IF withEstado THEN {Len(DataColumns) + 1} ELSE {}]

\* the header row has an "Estado" cell
hasEstado(wb) == wb.estado_cols # {}

\* the workbooks a run can be given; without an "Estado" header every status
\* cell is empty
Workbooks(R) ==
    { Book(p[1], p[2]) :
        p \in { q \in SeqsUpTo(R, MaxRows) \X BOOLEAN :
                  q[2] \/ \A j \in 1..Len(q[1]) : q[1][j].Estado = NaNCell } }

None == [k |-> "None"]

Raised == [k |-> "raised"]

(***************************************************************************)
(* load_excel and mark_status                                              *)
(***************************************************************************)
\* load_excel(filepath): the frame's row k (0-based) is the sheet row
\* HeaderArg + 2 + k; the frame has an "Estado" column only when the header has
load_excel(wb) ==
    LET first == HeaderArg + 2 - header_row
        n     == IF Len(wb.rows) >= first THEN Len(wb.rows) - first + 1 ELSE 0
    IN  [k \in 1..n |->
            LET r == wb.rows[first + k - 1]
            IN  IF hasEstado(wb) THEN r ELSE [r EXCEPT !.Estado = Absent]]

\* the rows of the sheet extended with blank rows up to sheet row header_row + j
PadRows(rows, j) ==
    [i \in 1..(IF j > Len(rows) THEN j ELSE Len(rows)) |->
        IF i <= Len(rows) THEN rows[i] ELSE BlankRow]

\* the least element of a non-empty set of columns
FirstOf(S) == CHOOSE c \in S : \A d \in S : c <= d

\* lines 50-60 of mark_status: the column of the "Estado" header, found by
\* the scan of columns 1 .. max_column + 1 or created.  sheet.cell creates
\* the cell it is asked for, so a scan that finds no header leaves an empty
\* cell in column max_column + 1, and sheet.max_column, read again at line
\* 58, counts that cell
EstadoColumn(wb) ==
    LET scanned == 1..(wb.max_column + 1)
        hits    == wb.estado_cols \cap scanned
    IN  IF hits # {}
        THEN [col |-> FirstOf(hits), created |-> FALSE]
        ELSE LET max_column_after_scan == wb.max_column + 1
             IN  [col |-> max_column_after_scan + 1, created |-> TRUE]

\* the header row after line 59, as wb.save writes it: an empty cell without
\* style is not written
WithHeader(wb, e) ==
    [wb EXCEPT !.estado_cols = IF e.created THEN wb.estado_cols \cup {e.col} ELSE @,
               !.max_column  = IF e.created THEN e.col ELSE @]

\* Mutant: the row is computed as header_row + row_index, one row too high
mark_status_HeaderOffset(wb, row_index, status) ==
    LET e         == EstadoColumn(wb)
        excel_row == header_row + row_index
        j         == excel_row - header_row
    IN  IF j >= 1
        THEN [WithHeader(wb, e) EXCEPT
                 !.rows = [PadRows(wb.rows, j) EXCEPT ![j].Estado = Txt(status)]]
        ELSE WithHeader(wb, e)

\* mark_status(filepath, row_index, status) when the workbook loads and saves:
\* the "Estado" column is found or created, then the cell of sheet row
\* header_row + 1 + row_index is written
mark_status(wb, row_index, status) ==
    LET e         == EstadoColumn(wb)
        excel_row == header_row + 1 + row_index
        j         == excel_row - header_row
    IN  IF j >= 1
        THEN [WithHeader(wb, e) EXCEPT
                 !.rows = [PadRows(wb.rows, j) EXCEPT ![j].Estado = Txt(status)]]
        ELSE WithHeader(wb, e)

(***************************************************************************)
(* FracttalAPI, one response kind per call                                 *)
(***************************************************************************)
\* responses of the token endpoint
AuthKinds == {"transport", "http_error", "not_json", "bad_shape", "no_token", "token"}

\* responses of the meter lookup endpoint
LookupKinds ==
    {"transport", "http_error", "not_json", "bad_shape", "no_data", "no_value", "value"}

\* responses of the meter update endpoint; "invalid_json" is the request
\* library refusing to encode a non-finite value
UpdateKinds ==
    {"transport", "http_error", "not_json", "bad_shape", "ok_false", "ok_truthy",
     "ok_true", "invalid_json"}

T_token == << "t","o","k" >>

\* Mutant: the call reports success without looking at the token it stored
authenticate_IgnoresMissingToken(kind) ==
    IF kind \in {"transport", "http_error", "not_json"}
    THEN [k |-> "ret", ret |-> FALSE, token |-> None]
    ELSE IF kind = "bad_shape" THEN Raised
    ELSE IF kind = "no_token" THEN [k |-> "ret", ret |-> TRUE, token |-> None]
    ELSE [k |-> "ret", ret |-> TRUE, token |-> Txt(T_token)]

\* authenticate(): [ret, token], or Raised when the body is JSON but no object
\* (data.get raises AttributeError, which is no RequestException)
authenticate(kind) ==
    IF kind \in {"transport", "http_error", "not_json"}
    THEN [k |-> "ret", ret |-> FALSE, token |-> None]
    ELSE IF kind = "bad_shape" THEN Raised
    ELSE IF kind = "no_token" THEN [k |-> "ret", ret |-> FALSE, token |-> None]
    ELSE [k |-> "ret", ret |-> TRUE, token |-> Txt(T_token)]

\* get_meter_value(serial): the accumulated value, None, or Raised when the
\* body is JSON of another shape (no object, or "last_data": null)
get_meter_value(platform, serial, kind) ==
    IF kind \in {"transport", "http_error", "not_json"} THEN None
    ELSE IF kind = "bad_shape" THEN Raised
    ELSE IF kind = "no_data" THEN None
    ELSE IF kind = "no_value" THEN None
    ELSE platform[serial]

\* update_meter(serial, new_value): [ok], or Raised when the status is 200
\* and the body is JSON but no object
update_meter(kind) ==
    IF kind \in {"transport", "invalid_json"} THEN [k |-> "ret", ok |-> FALSE]
    ELSE IF kind = "http_error" THEN [k |-> "ret", ok |-> FALSE]
    ELSE IF kind = "not_json" THEN [k |-> "ret", ok |-> FALSE]
    ELSE IF kind = "bad_shape" THEN Raised
    ELSE IF kind = "ok_true" \/ kind = "ok_truthy" THEN [k |-> "ret", ok |-> TRUE]
    ELSE [k |-> "ret", ok |-> FALSE]

\* Mutant: the check for an absent reading is missing
AbsentReading_Unchecked(r) == FALSE

\* gui.py line 101: `contador_actual is None`
AbsentReading(r) == r = None

\* the response kinds the platform can give to an update carrying this value
UpdateKindsFor(value) ==
    IF IsFinite(value) THEN UpdateKinds \ {"invalid_json"} ELSE {"invalid_json"}

\* the response kinds the platform can give to a lookup of this serial
LookupKindsFor(platform, serial) ==
    IF serial \in DOMAIN platform THEN LookupKinds ELSE LookupKinds \ {"value"}

(***************************************************************************)
(* State                                                                   *)
(***************************************************************************)
VARIABLES
    file,             \* the workbook on disk
    remote,           \* the platform's accumulated value per asset
    ui,               \* selected_file is set, start_btn and select_btn enabled
    pending_finished, \* finished_signal emitted and not yet handled: <<flag>>
    pc,               \* the worker's position in UpdateWorker.run
    token,            \* FracttalAPI.token of the run's client
    df,               \* the frame load_excel returned
    idx,              \* index of the row the loop is at (0-based)
    cnt,              \* successful, failed, skipped, already_processed
    contador_actual,  \* local of run: the reading of the current row
    nuevo_valor,      \* local of run: the value to submit
    trace,            \* the calls made and events emitted by the current run
    cls,              \* classification of each row in the current run
    prev,             \* summary of the previous run
    last_resp,        \* kind of the response the step just taken received
    fault_seen,       \* a call of this run met a transport failure, an error
                      \* status or success: false
    runs_left,        \* runs the user will still start
    calc              \* calculate_value_to_add called on its own: row and result

vars == << file, remote, ui, pending_finished, pc, token, df, idx, cnt,
           contador_actual, nuevo_valor, trace, cls, prev, last_resp, fault_seen,
                    runs_left, calc >>

ZeroCounters == [successful |-> 0, failed |-> 0, skipped |-> 0, already_processed |-> 0]

NoPrev == [started |-> FALSE, complete |-> FALSE, rows |-> << >>]

\* the state after construction of the window, before any file is selected
Start(books, n) ==
    /\ file \in books
    /\ remote = (T_ER1 :> Num(1000)) @@ (T_ER2 :> Num(500))
    /\ ui = [selected |-> FALSE, start_btn |-> FALSE, select_btn |-> TRUE]
    /\ pending_finished = << >>
    /\ pc = "idle"
    /\ token = None
    /\ df = << >>
    /\ idx = 0
    /\ cnt = ZeroCounters
    /\ contador_actual = None
    /\ nuevo_valor = None
    /\ trace = << >>
    /\ cls = << >>
    /\ prev = NoPrev
    /\ last_resp = "none"
    /\ fault_seen = FALSE
    /\ runs_left = n

\* calculate_value_to_add is not being called on its own
NoCall == [row |-> None, out |-> None]

\* one run on any report
Init == Start(Workbooks(ReportRows), 1) /\ calc = NoCall

\* up to MaxRuns runs, one after the other, on the same report
InitRerun == Start(Workbooks(RerunRows), MaxRuns) /\ calc = NoCall

\* one run on a report made of one row of each kind
InitKinds == Start(Workbooks(RowKinds), 1) /\ calc = NoCall

(***************************************************************************)
(* Events                                                                  *)
(***************************************************************************)
\* what a call gave back: a value, or Raised
Returned(ok) == [k |-> "ret", ok |-> ok]

EvAuth(res) == [ev |-> "authenticate", res |-> res]

EvLoad(res) == [ev |-> "load_excel", res |-> res]

EvProgress(current, total) == [ev |-> "progress", current |-> current, total |-> total]

\* Mutant: the snapshot carries the counters of the start of the run
EvStats_Stale(c) == [ev |-> "stats", c |-> ZeroCounters]

EvStats(c) == [ev |-> "stats", c |-> c]

EvLookup(i, serial, tok, res) ==
    [ev |-> "get_meter_value", row |-> i, serial |-> serial, token |-> tok, res |-> res]

EvUpdate(i, serial, tok, value, res) ==
    [ev |-> "update_meter", row |-> i, serial |-> serial, token |-> tok,
     value |-> value, res |-> res]

EvMark(i, status, saved) ==
    [ev |-> "mark_status", row |-> i, status |-> status, saved |-> saved]

EvFinished(flag) == [ev |-> "finished", flag |-> flag]

\* the row the loop is at and its identifier
CurRow == df[idx + 1]

CurInterno == get_interno_and_categoria(CurRow).interno

\* what a later run needs to know of a finished one
Summary(c, tr) ==
    [i \in 1..Len(c) |->
        IF c[i] = "updated"
        THEN IF \E e \in 1..Len(tr) :
                    tr[e].ev = "mark_status" /\ tr[e].row = i - 1 /\ tr[e].saved
             THEN "updated_marked" ELSE "updated_unmarked"
        ELSE IF c[i] = "update_failed" THEN "update_failed"
        ELSE "other"]

(***************************************************************************)
(* The window: select_file, start_update, on_finished                      *)
(***************************************************************************)
\* select_file with a file chosen in the dialog; the button is clickable
\* whenever it is enabled, a file being already selected or not
SelectFile ==
    /\ ui.select_btn
    /\ ui' = [ui EXCEPT !.selected = TRUE, !.start_btn = TRUE]
    /\ UNCHANGED << file, remote, pending_finished, pc, token, df, idx, cnt,
                    contador_actual, nuevo_valor, trace, cls, prev, last_resp, fault_seen,
                    runs_left, calc >>

\* Mutant: start_update leaves both buttons as they are
StartUpdate_ButtonsLeftEnabled ==
    /\ ui.start_btn
    /\ ui.selected
    /\ runs_left > 0
    /\ ui' = ui
    /\ token' = None
    /\ pc' = "auth"
    /\ df' = << >>
    /\ idx' = 0
    /\ cnt' = ZeroCounters
    /\ contador_actual' = None
    /\ nuevo_valor' = None
    /\ trace' = << >>
    /\ cls' = << >>
    /\ prev' = IF pc = "idle" THEN NoPrev
               ELSE [started  |-> TRUE,
                     complete |-> trace # << >> /\ trace[Len(trace)] = EvFinished(TRUE),
                     rows     |-> Summary(cls, trace)]
    /\ last_resp' = "none"
    /\ fault_seen' = FALSE
    /\ runs_left' = runs_left - 1
    /\ UNCHANGED << file, remote, pending_finished, calc >>

\* start_update: the click is possible only on an enabled button; a new
\* client and a new worker are created and the worker is started
StartUpdate ==
    /\ ui.start_btn
    /\ ui.selected
    /\ runs_left > 0
    /\ ui' = [ui EXCEPT !.start_btn = FALSE, !.select_btn = FALSE]
    /\ token' = None
    /\ pc' = "auth"
    /\ df' = << >>
    /\ idx' = 0
    /\ cnt' = ZeroCounters
    /\ contador_actual' = None
    /\ nuevo_valor' = None
    /\ trace' = << >>
    /\ cls' = << >>
    /\ prev' = IF pc = "idle" THEN NoPrev
               ELSE [started  |-> TRUE,
                     complete |-> trace # << >> /\ trace[Len(trace)] = EvFinished(TRUE),
                     rows     |-> Summary(cls, trace)]
    /\ last_resp' = "none"
    /\ fault_seen' = FALSE
    /\ runs_left' = runs_left - 1
    /\ UNCHANGED << file, remote, pending_finished, calc >>

\* on_finished, run by the window when the queued finished_signal is delivered
OnFinished ==
    /\ pending_finished # << >>
    /\ pending_finished' = << >>
    /\ ui' = [ui EXCEPT !.start_btn = TRUE, !.select_btn = TRUE]
    /\ UNCHANGED << file, remote, pc, token, df, idx, cnt, contador_actual,
                    nuevo_valor, trace, cls, prev, last_resp, fault_seen,
                    runs_left, calc >>

(***************************************************************************)
(* UpdateWorker.run, one action per step                                   *)
(***************************************************************************)
\* Mutant: the except clause logs the error and emits no finished_signal
ExceptClause_Silent(tr) ==
    /\ trace' = tr
    /\ pending_finished' = pending_finished
    /\ pc' = "done"

\* the except clause of run (lines 141-143) after the events tr
ExceptClause(tr) ==
    /\ trace' = Append(tr, EvFinished(FALSE))
    /\ pending_finished' = << FALSE >>
    /\ pc' = "done"

\* lines 61-66: authenticate, and the early return when it fails
Authenticate ==
    /\ pc = "auth"
    /\ \E kind \in AuthKinds :
         LET r == authenticate(kind)
         IN  /\ last_resp' = kind
             /\ IF r = Raised
                THEN /\ ExceptClause(Append(trace, EvAuth(Raised)))
                     /\ token' = token
                ELSE /\ token' = r.token
                     /\ IF r.ret
                        THEN /\ trace' = Append(trace, EvAuth(Returned(TRUE)))
                             /\ pc' = "load"
                             /\ pending_finished' = pending_finished
                        ELSE /\ trace' = trace \o << EvAuth(Returned(FALSE)), EvFinished(FALSE) >>
                             /\ pending_finished' = << FALSE >>
                             /\ pc' = "done"
    /\ UNCHANGED << file, remote, ui, df, idx, cnt, contador_actual, nuevo_valor,
                    cls, prev, fault_seen,
                    runs_left, calc >>

\* lines 68-76: load the frame and reset the counters; the file may fail to
\* open or to parse, which raises
LoadExcel ==
    /\ pc = "load"
    /\ last_resp' = "none"
    /\ \E readable \in BOOLEAN :
         IF readable
         THEN /\ df' = load_excel(file)
              /\ cls' = [i \in 1..Len(load_excel(file)) |-> "pending"]
              /\ cnt' = ZeroCounters
              /\ idx' = 0
              /\ trace' = Append(trace, EvLoad(Returned(TRUE)))
              /\ pc' = "row"
              /\ pending_finished' = pending_finished
         ELSE /\ ExceptClause(Append(trace, EvLoad(Raised)))
              /\ UNCHANGED << df, cls, cnt, idx >>
    /\ UNCHANGED << file, remote, ui, token, contador_actual, nuevo_valor, prev, fault_seen,
                    runs_left, calc >>

\* lines 78-97: the head of one iteration, up to the lookup
RowBegin ==
    /\ pc = "row"
    /\ idx < Len(df)
    /\ last_resp' = "none"
    /\ LET tr0 == Append(trace, EvProgress(idx + 1, Len(df)))
       IN  IF NoIdentifier(CurInterno)
           THEN /\ trace' = tr0
                /\ cls' = [cls EXCEPT ![idx + 1] = "no_identifier"]
                /\ cnt' = cnt
                /\ idx' = idx + 1
                /\ pc' = "row"
           ELSE IF EstadoIsOK(CurRow)
           THEN LET c == [cnt EXCEPT !.already_processed = @ + 1]
                IN  /\ trace' = tr0 \o << EvStats(cnt), EvStats(c) >>
                    /\ cls' = [cls EXCEPT ![idx + 1] = "already_processed"]
                    /\ cnt' = c
                    /\ idx' = idx + 1
                    /\ pc' = "row"
           ELSE /\ trace' = Append(tr0, EvStats(cnt))
                /\ pc' = "lookup"
                /\ UNCHANGED << cls, cnt, idx >>
    /\ UNCHANGED << file, remote, ui, pending_finished, token, df, contador_actual,
                    nuevo_valor, prev, fault_seen,
                    runs_left, calc >>

\* lines 99-105: get_meter_value and the absent branch
Lookup ==
    /\ pc = "lookup"
    /\ \E kind \in LookupKindsFor(remote, CurInterno) :
         LET r  == get_meter_value(remote, CurInterno, kind)
             tr == Append(trace, EvLookup(idx, CurInterno, token, r))
         IN  /\ last_resp' = kind
             /\ fault_seen' = (fault_seen \/ kind \in {"transport", "http_error"})
             /\ IF r = Raised
                THEN /\ ExceptClause(tr)
                     /\ UNCHANGED << cls, cnt, idx, contador_actual >>
                ELSE IF AbsentReading(r)
                THEN LET c == [cnt EXCEPT !.failed = @ + 1]
                     IN  /\ trace' = Append(tr, EvStats(c))
                         /\ cls' = [cls EXCEPT ![idx + 1] = "no_meter"]
                         /\ cnt' = c
                         /\ idx' = idx + 1
                         /\ pc' = "row"
                         /\ UNCHANGED << pending_finished, contador_actual >>
                ELSE /\ trace' = tr
                     /\ contador_actual' = r
                     /\ pc' = "compute"
                     /\ UNCHANGED << cls, cnt, idx, pending_finished >>
    /\ UNCHANGED << file, remote, ui, token, df, nuevo_valor, prev, runs_left, calc >>

\* lines 107-120: the delta, the zero branch and the new value
Compute ==
    /\ pc = "compute"
    /\ last_resp' = "none"
    /\ LET valor_a_sumar == calculate_value_to_add(CurRow).delta
       IN  IF IsZero(valor_a_sumar)
           THEN LET c == [cnt EXCEPT !.skipped = @ + 1]
                IN  /\ trace' = Append(trace, EvStats(c))
                    /\ cls' = [cls EXCEPT ![idx + 1] = "zero_delta"]
                    /\ cnt' = c
                    /\ idx' = idx + 1
                    /\ pc' = "row"
                    /\ nuevo_valor' = nuevo_valor
           ELSE /\ nuevo_valor' = AddF(contador_actual, valor_a_sumar)
                /\ pc' = "update"
                /\ UNCHANGED << trace, cls, cnt, idx >>
    /\ UNCHANGED << file, remote, ui, pending_finished, token, df, contador_actual,
                    prev, fault_seen,
                    runs_left, calc >>

\* lines 122-133 without the write-back: update_meter and both branches; the
\* platform has stored the value when it answers 200 with a truthy success
Update ==
    /\ pc = "update"
    /\ \E kind \in UpdateKindsFor(nuevo_valor) :
         LET r  == update_meter(kind)
             tr == Append(trace, EvUpdate(idx, CurInterno, token, nuevo_valor, r))
         IN  /\ last_resp' = kind
             /\ fault_seen' =
                    (fault_seen \/ kind \in {"transport", "http_error", "ok_false"})
             /\ remote' = IF kind \in {"ok_true", "ok_truthy"}
                          THEN [remote EXCEPT ![CurInterno] = nuevo_valor]
                          ELSE remote
             /\ IF r = Raised
                THEN /\ ExceptClause(tr)
                     /\ UNCHANGED << cls, cnt, idx >>
                ELSE IF r.ok
                THEN /\ trace' = tr
                     /\ cnt' = [cnt EXCEPT !.successful = @ + 1]
                     /\ cls' = [cls EXCEPT ![idx + 1] = "updated"]
                     /\ pc' = "mark"
                     /\ UNCHANGED << idx, pending_finished >>
                ELSE LET c == [cnt EXCEPT !.failed = @ + 1]
                     IN  /\ trace' = Append(tr, EvStats(c))
                         /\ cnt' = c
                         /\ cls' = [cls EXCEPT ![idx + 1] = "update_failed"]
                         /\ idx' = idx + 1
                         /\ pc' = "row"
                         /\ pending_finished' = pending_finished
    /\ UNCHANGED << file, ui, token, df, contador_actual, nuevo_valor, prev,
                    runs_left, calc >>

\* lines 128 and 133: mark_status, which swallows a failure to load or save
\* the workbook, then the statistics of the row
MarkStatus ==
    /\ pc = "mark"
    /\ last_resp' = "none"
    /\ \E saved \in BOOLEAN :
         /\ file' = IF saved THEN mark_status(file, idx, T_OK) ELSE file
         /\ trace' = trace \o << EvMark(idx, T_OK, saved), EvStats(cnt) >>
    /\ idx' = idx + 1
    /\ pc' = "row"
    /\ UNCHANGED << remote, ui, pending_finished, token, df, cnt, contador_actual,
                    nuevo_valor, cls, prev, fault_seen,
                    runs_left, calc >>

\* lines 135-139: after the last row
Finish ==
    /\ pc = "row"
    /\ idx >= Len(df)
    /\ last_resp' = "none"
    /\ trace' = Append(trace, EvFinished(TRUE))
    /\ pending_finished' = << TRUE >>
    /\ pc' = "done"
    /\ UNCHANGED << file, remote, ui, token, df, idx, cnt, contador_actual,
                    nuevo_valor, cls, prev, fault_seen,
                    runs_left, calc >>

Next ==
    \/ SelectFile
    \/ StartUpdate
    \/ OnFinished
    \/ Authenticate
    \/ LoadExcel
    \/ RowBegin
    \/ Lookup
    \/ Compute
    \/ Update
    \/ MarkStatus
    \/ Finish

Spec == Init /\ [][Next]_vars

SpecRerun == InitRerun /\ [][Next]_vars

SpecKinds == InitKinds /\ [][Next]_vars

(***************************************************************************)
(* calculate_value_to_add on its own, on any row of the catalogue          *)
(***************************************************************************)
\* category cells: the three known categories, padded, in another case,
\* unknown, empty text, empty cell, no such column
CalcCategorias ==
    { Txt(T_Camiones), Txt(T_FlotaLiviana), Txt(T_Maquinarias),
      Txt(<< " " >> \o T_Camiones \o << " " >>),
      Txt(<< "c","a","m","i","o","n","e","s" >>),
      Txt(<< "O","t","r","o","s" >>), Txt(<< >>), NaNCell, Absent }

\* distance cells
CalcKm ==
    { Txt(<< "5","0" >>), Txt(<< "1","2","3",",","5" >>), Txt(<< "1","2","3",".","5" >>),
      Txt(<< "0" >>), Txt(<< " ","7"," " >>), Txt(<< "a","b","c" >>),
      Txt(<< "1",",","2",".","5" >>), Txt(<< >>), NaNCell, Absent }

\* running-time cells
CalcTiempo ==
    { Txt(<< "2",":","3","0" >>), Txt(<< "0",":","0","0" >>), Txt(<< "1",":","4","5" >>),
      Txt(<< "1",":","2","0" >>), Txt(<< " ","2",":","3","0"," " >>),
      Txt(<< "2" >>), Txt(<< "a","b","c" >>), Txt(<< "2",":","x","x" >>),
      Txt(<< "x","x",":","3","0" >>), Txt(<< "2",":" >>), Txt(<< ":","3","0" >>),
      Txt(<< "1",":","4","5",":","0","0" >>), Txt(<< >>), NaNCell, Absent }

CalcRows ==
    { Row(Txt(T_ER1), c, k, t, NaNCell) : c \in CalcCategorias, k \in CalcKm, t \in CalcTiempo }

InitCalc ==
    /\ Start({Book(<< BlankRow >>, FALSE)}, 0)
    /\ calc \in { [row |-> r, out |-> None] : r \in CalcRows }

\* the call returns its pair
CalculateValue ==
    /\ calc.row # None
    /\ calc.out = None
    /\ calc' = [calc EXCEPT !.out = calculate_value_to_add(calc.row)]
    /\ UNCHANGED << file, remote, ui, pending_finished, pc, token, df, idx, cnt,
                    contador_actual, nuevo_valor, trace, cls, prev, last_resp,
                    fault_seen, runs_left >>

NextCalc == CalculateValue

SpecCalc == InitCalc /\ [][NextCalc]_vars

(***************************************************************************)
(* mark_status on its own, called again and again on one workbook          *)
(***************************************************************************)
\* the statuses written: the default "OK" and another text
MarkStatuses == { T_OK, << "E","R","R" >> }

\* the row indexes passed: every row of the frame, and one past the last
MarkIndexes == 0..MaxRows

InitMark == Start(Workbooks(RerunRows), 0) /\ calc = NoCall

\* one call that loads and saves the workbook
MarkCell ==
    /\ \E i \in MarkIndexes, s \in MarkStatuses : file' = mark_status(file, i, s)
    /\ UNCHANGED << remote, ui, pending_finished, pc, token, df, idx, cnt,
                    contador_actual, nuevo_valor, trace, cls, prev, last_resp,
                    fault_seen, runs_left, calc >>

NextMark == MarkCell

SpecMark == InitMark /\ [][NextMark]_vars

\* the worker thread is between its start and its completion event
WorkerRunning == pc \notin {"idle", "done"}

\* the worker leaves its position: every step of run changes pc or idx, and
\* a running worker always has a step to take
WorkerAdvances ==
    /\ WorkerRunning
    /\ pc' \in {"load", "row", "lookup", "compute", "update", "mark", "done"}
    /\ idx' \in {idx, idx + 1}
    /\ << pc', idx' >> # << pc, idx >>

\* the worker thread keeps being scheduled and every call it makes returns
SpecFair == Spec /\ WF_<< pc, idx >>(WorkerAdvances)

(***************************************************************************)
(* Vocabulary of the properties                                            *)
(***************************************************************************)
\* positions in the trace of the events of one kind for one row (0-based)
CallsFor(ev, i) == { e \in 1..Len(trace) : trace[e].ev = ev /\ trace[e].row = i }

EventsOf(ev) == { e \in 1..Len(trace) : trace[e].ev = ev }

\* the rows the loop has entered
Visited == { i \in 1..Len(cls) : cls[i] # "pending" }

\* the status cell of sheet row header_row + j as it was when the frame was read
EstadoAtLoad(j) == IF df[j].Estado = Absent THEN NaNCell ELSE df[j].Estado

\* the frame has been read by the current run
Loaded == pc \in {"row", "lookup", "compute", "update", "mark"}
          \/ (pc = "done" /\ EvLoad(Returned(TRUE)) \in { trace[e] : e \in 1..Len(trace) })

RunOver == pc = "done"

LastEvent == trace[Len(trace)]

\* a status cell that reads OK once trimmed, whatever the case of its letters
ReadsOK(cell) == cell.t = "str" /\ Lower(Strip(cell.s)) = << "o","k" >>

\* an identifier cell that is empty, blank, or reads "nan"
LacksIdentifier(cell) ==
    cell.t \in {"nan", "absent"} \/ Strip(cell.s) = << >> \/ Strip(cell.s) = T_nan

\* each counter is the number of rows of its classification
CountersMatch ==
    /\ cnt.successful = Cardinality({ i \in 1..Len(cls) : cls[i] = "updated" })
    /\ cnt.failed = Cardinality({ i \in 1..Len(cls) : cls[i] \in {"no_meter", "update_failed"} })
    /\ cnt.skipped = Cardinality({ i \in 1..Len(cls) : cls[i] = "zero_delta" })
    /\ cnt.already_processed =
           Cardinality({ i \in 1..Len(cls) : cls[i] = "already_processed" })

(***************************************************************************)
(* C1: "OK" reaches a row's status cell only through mark_status called   *)
(* right after update_meter returned success for that same row in the     *)
(* same run, at most once per row, and never for a row that was not       *)
(* updated.                                                                *)
(***************************************************************************)
C1_OkOnlyAfterRemoteSuccess ==
    /\ \A e \in EventsOf("mark_status") :
         /\ e > 1
         /\ trace[e - 1].ev = "update_meter"
         /\ trace[e - 1].row = trace[e].row
         /\ trace[e - 1].res = Returned(TRUE)
         /\ cls[trace[e].row + 1] = "updated"
         /\ Cardinality(CallsFor("mark_status", trace[e].row)) = 1
         /\ Cardinality(CallsFor("update_meter", trace[e].row)) = 1
    /\ Loaded =>
         /\ Len(file.rows) = Len(df)
         /\ \A j \in 1..Len(df) :
              \/ file.rows[j].Estado = EstadoAtLoad(j)
              \/ /\ file.rows[j].Estado = Txt(T_OK)
                 /\ cls[j] = "updated"
                 /\ \E e \in CallsFor("mark_status", j - 1) : trace[e].saved
         /\ \A j \in 1..Len(df) : file.rows[j] = [df[j] EXCEPT !.Estado = file.rows[j].Estado]

C1_Witness ==
    /\ pc = "row"
    /\ \E j \in 1..Len(df) :
         /\ file.rows[j].Estado = Txt(T_OK)
         /\ EstadoAtLoad(j) = NaNCell
         /\ \E e \in CallsFor("mark_status", j - 1) :
              trace[e].saved /\ trace[e - 1].res = Returned(TRUE)

(***************************************************************************)
(* C2: authenticate is called once per run and before any row; when it    *)
(* returns false the run ends with finished(False) and no row is visited, *)
(* no call made, no status written and no counter incremented; every      *)
(* lookup and update call carries a stored token.                          *)
(***************************************************************************)
C2_AuthenticateFirst ==
    /\ Cardinality(EventsOf("authenticate")) <= 1
    /\ trace # << >> => trace[1].ev = "authenticate"
    /\ pc \notin {"idle", "auth"} => Cardinality(EventsOf("authenticate")) = 1
    /\ \A e \in 1..Len(trace) :
         trace[e].ev \in {"get_meter_value", "update_meter"} =>
            /\ trace[e].token # None
            /\ trace[1] = EvAuth(Returned(TRUE))
            /\ token = trace[e].token
    /\ (trace # << >> /\ trace[1] = EvAuth(Returned(FALSE))) =>
         /\ trace = << EvAuth(Returned(FALSE)), EvFinished(FALSE) >>
         /\ RunOver
         /\ pending_finished = << FALSE >> \/ ui.start_btn
         /\ cls = << >> /\ df = << >>
         /\ cnt = ZeroCounters

C2_Witness ==
    /\ RunOver
    /\ trace = << EvAuth(Returned(FALSE)), EvFinished(FALSE) >>
    /\ token = None
    /\ Len(file.rows) = MaxRows

(***************************************************************************)
(* C3 as stated: every row whose status reads OK is classified            *)
(* already-processed, with no lookup and no update for it.                 *)
(***************************************************************************)
C3_Original ==
    \A i \in Visited :
        ReadsOK(df[i].Estado) =>
            /\ cls[i] = "already_processed"
            /\ CallsFor("get_meter_value", i - 1) = {}
            /\ CallsFor("update_meter", i - 1) = {}

(***************************************************************************)
(* C3 amended: every row with an identifier whose status reads OK is      *)
(* classified already-processed, already_processed counting exactly       *)
(* those rows, with no lookup and no update for it; a row without         *)
(* identifier is never counted, whatever its status.                       *)
(***************************************************************************)
C3_OkRowsWithIdentifierAreSkipped ==
    /\ \A i \in Visited :
         (ReadsOK(df[i].Estado) /\ ~LacksIdentifier(df[i].Interno)) =>
            /\ cls[i] = "already_processed"
            /\ CallsFor("get_meter_value", i - 1) = {}
            /\ CallsFor("update_meter", i - 1) = {}
            /\ CallsFor("mark_status", i - 1) = {}
    /\ cnt.already_processed =
         Cardinality({ i \in Visited :
                         ReadsOK(df[i].Estado) /\ ~LacksIdentifier(df[i].Interno) })

C3_Witness ==
    /\ RunOver
    /\ LastEvent = EvFinished(TRUE)
    /\ cnt.already_processed = 1
    /\ \E i \in Visited :
         /\ df[i].Estado = Txt(<< " ","o","k"," " >>)
         /\ cls[i] = "already_processed"

(***************************************************************************)
(* C4: in a run that follows another on the same report, a row the        *)
(* earlier run updated and marked is classified already-processed with    *)
(* no lookup and no update, so its delta is submitted once; a row whose   *)
(* update failed in the earlier run still has a status that is not OK and *)
(* is looked up again when the later run reaches it, and a complete run   *)
(* reaches every row.                                                      *)
(***************************************************************************)
C4_RerunSkipsUpdatedRetriesFailed ==
    prev.started =>
        \A i \in 1..Len(prev.rows) :
            /\ prev.rows[i] = "updated_marked" =>
                 /\ CallsFor("get_meter_value", i - 1) = {}
                 /\ CallsFor("update_meter", i - 1) = {}
                 /\ i \in Visited => cls[i] = "already_processed"
                 /\ (RunOver /\ LastEvent = EvFinished(TRUE)) => i \in Visited
            /\ prev.rows[i] = "update_failed" =>
                 /\ (Loaded /\ i <= Len(df)) => ~ReadsOK(df[i].Estado)
                 /\ i \in Visited => CallsFor("get_meter_value", i - 1) # {}
                 /\ (RunOver /\ LastEvent = EvFinished(TRUE)) => i \in Visited

C4_Witness ==
    /\ RunOver
    /\ LastEvent = EvFinished(TRUE)
    /\ prev.started /\ prev.complete
    /\ \E i, k \in Visited :
         /\ prev.rows[i] = "updated_marked"
         /\ cls[i] = "already_processed"
         /\ prev.rows[k] = "update_failed"
         /\ CallsFor("get_meter_value", k - 1) # {}

(***************************************************************************)
(* C5 as stated: when get_meter_value or update_meter fails for a row     *)
(* with a transport failure, an error status or success: false, that      *)
(* step adds 1 to failed and to no other counter and moves to the next    *)
(* row, and the run ends with finished(True).                              *)
(***************************************************************************)
C5_RowFailureIsRowScoped ==
    /\ ( /\ Len(trace) >= 3
         /\ trace[Len(trace) - 1].ev \in {"get_meter_value", "update_meter"}
         /\ last_resp \in {"transport", "http_error", "ok_false"} ) =>
            LET call   == trace[Len(trace) - 1]
                before == CHOOSE e \in EventsOf("stats") :
                              \A f \in EventsOf("stats") : f < Len(trace) => f <= e
            IN  /\ pc = "row"
                /\ idx = call.row + 1
                /\ LastEvent = EvStats(cnt)
                /\ cnt = [trace[before].c EXCEPT !.failed = @ + 1]
    /\ (RunOver /\ fault_seen) => LastEvent = EvFinished(TRUE)

(***************************************************************************)
(* C6: when the lookup of a row returns absent the row is classified      *)
(* failed, failed grows by 1 and no other counter changes, its status     *)
(* cell is not written, update_meter is not called for it and the loop    *)
(* moves to the next row.                                                  *)
(***************************************************************************)
C6_AbsentReadingFailsRow ==
    \A i \in 1..Len(cls) :
        \A e \in CallsFor("get_meter_value", i - 1) :
            trace[e].res = None =>
                /\ cls[i] = "no_meter"
                /\ trace[e - 1].ev = "stats"
                /\ trace[e + 1] = EvStats([trace[e - 1].c EXCEPT !.failed = @ + 1])
                /\ CallsFor("update_meter", i - 1) = {}
                /\ CallsFor("mark_status", i - 1) = {}
                /\ file.rows[i].Estado = EstadoAtLoad(i)
                /\ idx >= i
                /\ Cardinality(CallsFor("get_meter_value", i - 1)) = 1
                /\ CountersMatch

C6_Witness ==
    /\ pc = "lookup"
    /\ idx = 1
    /\ cls[1] = "no_meter"
    /\ cnt = [ZeroCounters EXCEPT !.failed = 1]
    /\ \E e \in CallsFor("get_meter_value", 0) : trace[e].res = None
    /\ ~LacksIdentifier(df[1].Interno)
    /\ ~ReadsOK(df[1].Estado)

(***************************************************************************)
(* C7 as stated, in the part that does not depend on the lookup: a row    *)
(* with an identifier and a status that is not OK whose distance or       *)
(* running-time field (the one its category uses) is non-numeric text or  *)
(* an empty cell gets a zero delta: it never reaches the update step, no  *)
(* update_meter call is made for it and it is never classified updated or *)
(* update-failed.                                                          *)
(***************************************************************************)
HasNoDigit(cell) == cell.t # "str" \/ \A p \in 1..Len(cell.s) : ~IsDigit(cell.s[p])

MalformedDeltaField(row) ==
    \/ row.Categoria \in {Txt(T_Camiones), Txt(T_FlotaLiviana)} /\ HasNoDigit(row.Km)
    \/ row.Categoria = Txt(T_Maquinarias) /\ HasNoDigit(row.Tiempo)

C7_MalformedFieldIsSkipped ==
    \A i \in 1..Len(cls) :
        ( /\ ~LacksIdentifier(df[i].Interno)
          /\ ~ReadsOK(df[i].Estado)
          /\ MalformedDeltaField(df[i]) ) =>
            /\ ~(pc \in {"update", "mark"} /\ idx = i - 1)
            /\ CallsFor("update_meter", i - 1) = {}
            /\ cls[i] \notin {"updated", "update_failed"}

(***************************************************************************)
(* C8 as stated: a row that reaches the update step gets exactly one      *)
(* update_meter call, for its identifier, with the reading its lookup     *)
(* returned plus its delta (1000 + 50 = 1050, 500 + 1:45 = 501.75); on    *)
(* success successful grows by 1 and the row's status is "OK".             *)
(***************************************************************************)
UpdateCallIsRight(i, e) ==
    /\ Cardinality(CallsFor("update_meter", i - 1)) = 1
    /\ trace[e].serial = Strip(PyStr(df[i].Interno))
    /\ trace[e - 1].ev = "get_meter_value"
    /\ trace[e - 1].row = i - 1
    /\ trace[e].value = AddF(trace[e - 1].res, calculate_value_to_add(df[i]).delta)
    /\ ( /\ df[i].Categoria = Txt(T_Camiones)
         /\ df[i].Km = Txt(<< "5","0" >>)
         /\ trace[e - 1].res = Num(1000) ) => trace[e].value = Num(1050)
    /\ ( /\ df[i].Categoria = Txt(T_Maquinarias)
         /\ df[i].Tiempo = Txt(<< "1",":","4","5" >>)
         /\ trace[e - 1].res = Num(500) ) => trace[e].value = Rat(50175, 100)

SuccessfulCounts ==
    cnt.successful =
        Cardinality({ e \in EventsOf("update_meter") : trace[e].res = Returned(TRUE) })

C8_Original ==
    /\ \A i \in 1..Len(cls) :
         \A e \in CallsFor("update_meter", i - 1) :
            /\ UpdateCallIsRight(i, e)
            /\ trace[e].res = Returned(TRUE) =>
                 /\ cls[i] = "updated"
                 /\ idx >= i => file.rows[i].Estado = Txt(T_OK)
    /\ SuccessfulCounts

(***************************************************************************)
(* C8 amended: a row that reaches the update step gets exactly one        *)
(* update_meter call, for its identifier, with the reading its lookup     *)
(* returned plus its delta; on success successful grows by 1 and          *)
(* mark_status is called for the row with "OK"; the row's status is "OK"  *)
(* when that write-back is saved and is unchanged when it is not.          *)
(***************************************************************************)
C8_UpdateSubmitsReadingPlusDelta ==
    /\ \A i \in 1..Len(cls) :
         \A e \in CallsFor("update_meter", i - 1) :
            /\ UpdateCallIsRight(i, e)
            /\ trace[e].res = Returned(TRUE) =>
                 /\ cls[i] = "updated"
                 /\ idx >= i =>
                      /\ trace[e + 1].ev = "mark_status"
                      /\ trace[e + 1].row = i - 1
                      /\ trace[e + 1].status = T_OK
                      /\ file.rows[i].Estado =
                            IF trace[e + 1].saved THEN Txt(T_OK) ELSE EstadoAtLoad(i)
    /\ SuccessfulCounts

C8_Witness ==
    /\ pc = "row"
    /\ cnt.successful = 2
    /\ \E e1 \in CallsFor("update_meter", 0), e2 \in CallsFor("update_meter", 1) :
         /\ trace[e1].value = Num(1050) /\ trace[e1].res = Returned(TRUE)
         /\ trace[e2].value = Rat(50175, 100) /\ trace[e2].res = Returned(TRUE)
         /\ trace[e1 + 1] = EvMark(0, T_OK, TRUE)
    /\ file.rows[1].Estado = Txt(T_OK)

(***************************************************************************)
(* C10: a row whose identifier is empty or reads "nan" changes no         *)
(* counter, triggers no lookup, no update and no status write, whatever   *)
(* its other cells hold.                                                   *)
(***************************************************************************)
C10_NoIdentifierRowsAreInert ==
    /\ \A i \in Visited :
         LacksIdentifier(df[i].Interno) =>
            /\ cls[i] = "no_identifier"
            /\ CallsFor("get_meter_value", i - 1) = {}
            /\ CallsFor("update_meter", i - 1) = {}
            /\ CallsFor("mark_status", i - 1) = {}
            /\ file.rows[i].Estado = EstadoAtLoad(i)
    /\ cnt.successful + cnt.failed + cnt.skipped + cnt.already_processed =
         Cardinality({ i \in Visited : ~LacksIdentifier(df[i].Interno) })

C10_Witness ==
    /\ RunOver
    /\ LastEvent = EvFinished(TRUE)
    /\ cnt = [ZeroCounters EXCEPT !.successful = 1]
    /\ \E i \in Visited :
         /\ df[i].Interno = NaNCell
         /\ df[i].Estado = Txt(T_OK)
         /\ cls[i] = "no_identifier"

(***************************************************************************)
(* C9: every started run terminates; rows are visited in row order, each  *)
(* at most once and exactly once when the run completes normally; no row  *)
(* is classified twice; the run emits exactly one completion event, as    *)
(* its last event, with flag false when authentication failed or an       *)
(* exception was raised in run and true otherwise; run always ends in its *)
(* completion event, never in an exception.                                *)
(***************************************************************************)
RowsVisitedInOrder ==
    LET P == EventsOf("progress")
    IN  /\ \A e \in P : /\ trace[e].current = Cardinality({ f \in P : f <= e })
                        /\ trace[e].total = Len(df)
        /\ Cardinality(P) \in {idx, idx + 1}
        /\ Visited \subseteq 1..Cardinality(P)
        /\ \A i \in 1..Len(cls) :
             /\ Cardinality(CallsFor("get_meter_value", i - 1)) <= 1
             /\ Cardinality(CallsFor("update_meter", i - 1)) <= 1
             /\ Cardinality(CallsFor("mark_status", i - 1)) <= 1

RaisedInRun == \E e \in 1..Len(trace) :
                  /\ trace[e].ev \in {"authenticate", "load_excel", "get_meter_value",
                                      "update_meter"}
                  /\ trace[e].res = Raised

OneCompletionEvent ==
    /\ ~RunOver => EventsOf("finished") = {} /\ pending_finished = << >>
    /\ RunOver =>
         /\ EventsOf("finished") = {Len(trace)}
         /\ LastEvent.flag = ~(trace[1] = EvAuth(Returned(FALSE)) \/ RaisedInRun)
         /\ LastEvent.flag =>
              /\ Cardinality(EventsOf("progress")) = Len(df)
              /\ Visited = 1..Len(df)

ClassifiedOnce ==
    \A i \in 1..Len(cls) :
        (cls[i] # "pending" /\ Len(cls') = Len(cls)) => cls'[i] = cls[i]

C9_EveryRunTerminates ==
    /\ [](RowsVisitedInOrder /\ OneCompletionEvent)
    /\ [][ClassifiedOnce]_vars
    /\ (pc = "auth") ~> RunOver

C9_Witness ==
    /\ RunOver
    /\ LastEvent = EvFinished(FALSE)
    /\ Len(df) = 2
    /\ cls[1] = "updated"
    /\ cls[2] = "pending"
    /\ Cardinality(EventsOf("progress")) = 2
    /\ \E e \in CallsFor("get_meter_value", 1) : trace[e].res = Raised

(***************************************************************************)
(* Vocabulary of the claims about calculate_value_to_add                   *)
(***************************************************************************)
\* the call has returned
CalcDone == calc.out # None

\* the row's category, trimmed, is this one
IsCategoria(row, name) == row.Categoria.t = "str" /\ Strip(row.Categoria.s) = name

\* the parts of a running-time text around its colons
TiempoParts(cell) == Split(Strip(cell.s), ":")

\* this text is an integer
IsInt(s) == ParseInt(s) # ValueError

\* h + m/60
DecimalHours(h, m) == AddF(ParseInt(h), Rat(ParseInt(m).n, 60))

(***************************************************************************)
(* C11 as stated: for Maquinarias the result is (hours + minutes/60,       *)
(* "Horas") when the running time is H:MM with numeric parts ("2:30" gives *)
(* 2.5, "0:00" gives 0) and (0, "Horas") for a value with no colon, a      *)
(* value with non-numeric parts, or a missing field.                       *)
(***************************************************************************)
MaquinariasWellFormed ==
    LET t == calc.row.Tiempo
    IN  /\ calc.out.unit = T_Horas
        /\ ( /\ t.t = "str"
             /\ Len(TiempoParts(t)) = 2
             /\ IsInt(TiempoParts(t)[1])
             /\ IsInt(TiempoParts(t)[2]) ) =>
                 calc.out.delta = DecimalHours(TiempoParts(t)[1], TiempoParts(t)[2])
        /\ t = Txt(<< "2",":","3","0" >>) => calc.out.delta = Rat(5, 2)
        /\ t = Txt(<< "0",":","0","0" >>) => calc.out.delta = Num(0)
        /\ t = Txt(<< "1",":","4","5" >>) => calc.out.delta = Rat(7, 4)

MaquinariasNonNumericOrMissing ==
    LET t == calc.row.Tiempo
    IN  /\ t.t # "str" => calc.out.delta = Num(0)
        /\ ( /\ t.t = "str"
             /\ \/ ~IsInt(TiempoParts(t)[1])
                \/ Len(TiempoParts(t)) >= 2 /\ ~IsInt(TiempoParts(t)[2]) ) =>
                 calc.out.delta = Num(0)

C11_Original ==
    (CalcDone /\ IsCategoria(calc.row, T_Maquinarias)) =>
        /\ MaquinariasWellFormed
        /\ MaquinariasNonNumericOrMissing
        /\ (calc.row.Tiempo.t = "str" /\ Len(TiempoParts(calc.row.Tiempo)) = 1) =>
               calc.out.delta = Num(0)

(***************************************************************************)
(* C11 amended: for Maquinarias the result is (hours + minutes/60,         *)
(* "Horas") when the running time is H:MM with numeric parts, (hours,      *)
(* "Horas") when it is an integer with no colon ("2" gives 2), and         *)
(* (0, "Horas") for a value with a non-numeric part or a missing field.    *)
(***************************************************************************)
C11_MaquinariasHours ==
    (CalcDone /\ IsCategoria(calc.row, T_Maquinarias)) =>
        /\ MaquinariasWellFormed
        /\ MaquinariasNonNumericOrMissing
        /\ ( /\ calc.row.Tiempo.t = "str"
             /\ Len(TiempoParts(calc.row.Tiempo)) = 1
             /\ IsInt(TiempoParts(calc.row.Tiempo)[1]) ) =>
               calc.out.delta = ParseInt(TiempoParts(calc.row.Tiempo)[1])
        /\ calc.row.Tiempo = Txt(<< "2" >>) => calc.out.delta = Num(2)

C11_Witness ==
    /\ CalcDone
    /\ calc.row.Categoria = Txt(T_Maquinarias)
    /\ calc.row.Tiempo = Txt(<< "2",":","3","0" >>)
    /\ calc.out = [delta |-> Rat(5, 2), unit |-> T_Horas]

(***************************************************************************)
(* C12 as stated: when the write-back of "OK" fails after a successful     *)
(* update, the row is still counted as successful (successful + 1, failed  *)
(* unchanged), the run goes on with the next row, and it completes with    *)
(* success flag true.                                                      *)
(***************************************************************************)
C12_MarkFailureKeepsSuccess ==
    \A e \in EventsOf("mark_status") :
        ~trace[e].saved =>
            /\ cls[trace[e].row + 1] = "updated"
            /\ CountersMatch
            /\ trace[e + 1].ev = "stats"
            /\ Len(trace) > e + 1 =>
                 \/ trace[e + 2] = EvProgress(trace[e].row + 2, Len(df))
                 \/ trace[e + 2] = EvFinished(TRUE)
            /\ RunOver => LastEvent = EvFinished(TRUE)

(***************************************************************************)
(* Vocabulary of the claims about the client's calls                       *)
(***************************************************************************)
CallEvents ==
    { e \in 1..Len(trace) :
        trace[e].ev \in {"authenticate", "get_meter_value", "update_meter"} }

\* the call the step just taken made (last_resp is the response it received)
LastCall == trace[CHOOSE e \in CallEvents : \A f \in CallEvents : f <= e]

\* False, None, (False, message)
FailureValue(ev) == IF ev = "get_meter_value" THEN None ELSE Returned(FALSE)

(***************************************************************************)
(* C13 as stated: whatever the remote outcome (transport exception, error  *)
(* status, body that is not the expected JSON shape), authenticate,        *)
(* get_meter_value and update_meter return their failure value and raise   *)
(* nothing into the pipeline.                                              *)
(***************************************************************************)
C13_ClientNeverRaises ==
    last_resp \in {"transport", "http_error", "not_json", "bad_shape"} =>
        /\ LastCall.res # Raised
        /\ LastCall.res = FailureValue(LastCall.ev)

(***************************************************************************)
(* C14 as stated: a run that loads a report in which every row has status  *)
(* "OK" makes one authenticate call and no lookup and no update, writes    *)
(* nothing to the report, and ends with already_processed equal to the     *)
(* number of rows and the other counters at 0.                             *)
(***************************************************************************)
AllRowsOK == Loaded /\ df # << >> /\ \A j \in 1..Len(df) : ReadsOK(df[j].Estado)

NothingCalledNothingWritten ==
    /\ Cardinality(EventsOf("authenticate")) = 1
    /\ EventsOf("get_meter_value") = {}
    /\ EventsOf("update_meter") = {}
    /\ EventsOf("mark_status") = {}
    /\ \A j \in 1..Len(df) : file.rows[j].Estado = EstadoAtLoad(j)

C14_Original ==
    AllRowsOK =>
        /\ NothingCalledNothingWritten
        /\ RunOver =>
             /\ LastEvent = EvFinished(TRUE)
             /\ cnt = [ZeroCounters EXCEPT !.already_processed = Len(df)]

(***************************************************************************)
(* C14 amended: a run that authenticates and loads a report in which every *)
(* row has status "OK" makes no lookup and no update, writes nothing to    *)
(* the report, and ends with already_processed equal to the number of rows *)
(* that have an identifier and the other counters at 0.                    *)
(***************************************************************************)
C14_AllOkRunIsIdle ==
    AllRowsOK =>
        /\ NothingCalledNothingWritten
        /\ RunOver =>
             /\ LastEvent = EvFinished(TRUE)
             /\ cnt = [ZeroCounters EXCEPT !.already_processed =
                          Cardinality({ j \in 1..Len(df) : ~LacksIdentifier(df[j].Interno) })]

C14_Witness ==
    /\ AllRowsOK
    /\ RunOver
    /\ Len(df) = 2
    /\ \A j \in 1..2 : ~LacksIdentifier(df[j].Interno)
    /\ prev.complete
    /\ prev.rows = << "other", "updated_marked" >>
    /\ cnt = [ZeroCounters EXCEPT !.already_processed = 2]
    /\ trace = << EvAuth(Returned(TRUE)), EvLoad(Returned(TRUE)) >> \o
               << EvProgress(1, 2), EvStats(ZeroCounters),
                  EvStats([ZeroCounters EXCEPT !.already_processed = 1]),
                  EvProgress(2, 2), EvStats([ZeroCounters EXCEPT !.already_processed = 1]),
                  EvStats([ZeroCounters EXCEPT !.already_processed = 2]),
                  EvFinished(TRUE) >>

(***************************************************************************)
(* C15: a row with an identifier, a status that is not OK and a reading,   *)
(* whose computed delta is 0 (zero distance, zero time, unknown category), *)
(* is classified skipped: skipped + 1 and the other counters unchanged, no *)
(* update_meter call, no status write.                                     *)
(***************************************************************************)
ZeroDeltaRowWithReading(i) ==
    /\ \E e \in CallsFor("get_meter_value", i - 1) : trace[e].res.k = "num"
    /\ ~LacksIdentifier(df[i].Interno)
    /\ ~ReadsOK(df[i].Estado)
    /\ calculate_value_to_add(df[i]).delta = Num(0)

C15_ZeroDeltaIsSkipped ==
    \A i \in 1..Len(cls) :
        ZeroDeltaRowWithReading(i) =>
            /\ ~(idx = i - 1 /\ pc \in {"update", "mark"})
            /\ CallsFor("update_meter", i - 1) = {}
            /\ CallsFor("mark_status", i - 1) = {}
            /\ file.rows[i].Estado = EstadoAtLoad(i)
            /\ idx >= i =>
                 /\ cls[i] = "zero_delta"
                 /\ \A e \in CallsFor("get_meter_value", i - 1) :
                      /\ trace[e - 1].ev = "stats"
                      /\ trace[e + 1] =
                            EvStats([trace[e - 1].c EXCEPT !.skipped = @ + 1])

C15_Witness ==
    /\ pc = "row"
    /\ idx = 2
    /\ ZeroDeltaRowWithReading(1)
    /\ ZeroDeltaRowWithReading(2)
    /\ df[1].Categoria = Txt(<< "O","t","r","o","s" >>)
    /\ df[2].Km = Txt(<< "0" >>)
    /\ cnt = [ZeroCounters EXCEPT !.skipped = 2]

(***************************************************************************)
(* C16 as stated: calculate_value_to_add always returns a pair; for        *)
(* "Flota Liviana" and "Camiones" the unit is "Km" and the delta is the    *)
(* distance field read as a decimal with comma or dot ("123,5" and "123.5" *)
(* both give 123.5), or 0 when the field cannot be read as one; for any    *)
(* other category but "Maquinarias", empty and missing included, the pair  *)
(* is (0, "Desconocido"); no delta is negative for the non-negative inputs *)
(* of the catalogue.                                                       *)
(***************************************************************************)
\* the distance text with its comma turned into a dot, read as a decimal
DecimalOf(cell) == ParseFloat(Replace(cell.s, ",", "."))

C16_CalculateIsTotal ==
    CalcDone =>
        LET km == calc.row.Km
        IN  /\ calc.out.unit \in {T_Km, T_Horas, T_Desconocido}
            /\ (IsCategoria(calc.row, T_Camiones) \/ IsCategoria(calc.row, T_FlotaLiviana)) =>
                 /\ calc.out.unit = T_Km
                 /\ (km.t = "str" /\ DecimalOf(km) # ValueError) =>
                        calc.out.delta = DecimalOf(km)
                 /\ km \in {Txt(<< "1","2","3",",","5" >>), Txt(<< "1","2","3",".","5" >>)} =>
                        calc.out.delta = Rat(247, 2)
                 /\ (km.t # "str" \/ DecimalOf(km) = ValueError) =>
                        calc.out.delta = Num(0)
            /\ ~( \/ IsCategoria(calc.row, T_Camiones)
                  \/ IsCategoria(calc.row, T_FlotaLiviana)
                  \/ IsCategoria(calc.row, T_Maquinarias) ) =>
                 calc.out = [delta |-> Num(0), unit |-> T_Desconocido]
            /\ calc.out.delta.k = "num" => calc.out.delta.n >= 0

(***************************************************************************)
(* C17 as stated: update_meter returns ok = true exactly when the response *)
(* has status 200 and a JSON body whose success is true; for every other   *)
(* response and for a transport exception it returns ok = false.           *)
(***************************************************************************)
C17_OkIffSuccessTrue ==
    (last_resp # "none" /\ LastCall.ev = "update_meter") =>
        LastCall.res = Returned(last_resp = "ok_true")

(***************************************************************************)
(* Vocabulary of the claims about the events of a row                      *)
(***************************************************************************)
\* the row has been entered and the loop has moved past it
Resolved(i) == i \in Visited /\ idx >= i

\* the rows the loop has entered: each has its progress event
Entered == { trace[e].current : e \in EventsOf("progress") }

\* the progress event of row i
ProgressAt(i) == CHOOSE e \in EventsOf("progress") : trace[e].current = i

\* the last event of row i: the one before the next row's progress event, or
\* before the completion event, or the last one so far
SegmentEnd(i) ==
    IF i + 1 \in Entered THEN ProgressAt(i + 1) - 1
    ELSE IF LastEvent.ev = "finished" THEN Len(trace) - 1
    ELSE Len(trace)

\* the counters after the rows 1..i
CountersUpTo(i) ==
    [successful |-> Cardinality({ j \in 1..i : cls[j] = "updated" }),
     failed |-> Cardinality({ j \in 1..i : cls[j] \in {"no_meter", "update_failed"} }),
     skipped |-> Cardinality({ j \in 1..i : cls[j] = "zero_delta" }),
     already_processed |-> Cardinality({ j \in 1..i : cls[j] = "already_processed" })]

\* the last event of row i is a snapshot of the counters as of then
EndsWithSnapshot(i) ==
    /\ trace[SegmentEnd(i)].ev = "stats"
    /\ trace[SegmentEnd(i)].c = CountersUpTo(i)

\* row i has its progress event, carrying its position and the row count
HasProgress(i) ==
    /\ i \in Entered
    /\ trace[ProgressAt(i)].total = Len(df)

(***************************************************************************)
(* C18 as stated: for every row, rows with no identifier included, once    *)
(* the row is resolved a statistics snapshot with the counters as of then  *)
(* and a progress event (position, total) have been emitted before the     *)
(* next row starts.                                                        *)
(***************************************************************************)
C18_Original ==
    \A i \in 1..Len(cls) :
        Resolved(i) => HasProgress(i) /\ EndsWithSnapshot(i)

(***************************************************************************)
(* C18 amended: every row gets its progress event (position, total) when   *)
(* the pipeline enters it, before any call for it; every resolved row with *)
(* an identifier ends with a statistics snapshot holding the counters as   *)
(* of then, before the next row starts; a row with no identifier gets the  *)
(* progress event and no snapshot.                                         *)
(***************************************************************************)
C18_ProgressThenSnapshot ==
    /\ \A e \in EventsOf("progress") :
         trace[e].current \in 1..Len(df) /\ trace[e].total = Len(df)
    /\ \A e \in 1..Len(trace) :
         trace[e].ev \in {"get_meter_value", "update_meter", "mark_status"} =>
            /\ trace[e].row + 1 \in Entered
            /\ ProgressAt(trace[e].row + 1) < e
    /\ \A i \in 1..Len(cls) :
         Resolved(i) =>
            /\ HasProgress(i)
            /\ IF LacksIdentifier(df[i].Interno)
               THEN SegmentEnd(i) = ProgressAt(i)
               ELSE EndsWithSnapshot(i)

C18_Witness ==
    /\ RunOver
    /\ LastEvent = EvFinished(TRUE)
    /\ cls = << "no_identifier", "updated" >>
    /\ SegmentEnd(1) = ProgressAt(1)
    /\ trace[SegmentEnd(2)].c = [ZeroCounters EXCEPT !.successful = 1]

(***************************************************************************)
(* C19: in a run each row gets at most one get_meter_value call and at     *)
(* most one update_meter call; update_meter for a row comes only after     *)
(* get_meter_value for that row returned a value, and only when the row's  *)
(* delta is not 0; the calls follow the row order and a row's update and   *)
(* write-back precede every call for a later row; a second worker cannot   *)
(* be started while one is running.                                        *)
(***************************************************************************)
RowCalls == CallEvents \ EventsOf("authenticate")

C19_OneAttemptInRowOrder ==
    /\ \A i \in 1..Len(cls) :
         /\ Cardinality(CallsFor("get_meter_value", i - 1)) <= 1
         /\ Cardinality(CallsFor("update_meter", i - 1)) <= 1
         /\ \A e \in CallsFor("update_meter", i - 1) :
              /\ \E f \in CallsFor("get_meter_value", i - 1) :
                    f < e /\ trace[f].res \notin {None, Raised}
              /\ calculate_value_to_add(df[i]).delta # Num(0)
              /\ (trace[e].res = Returned(TRUE) /\ \E g \in RowCalls : trace[g].row > i - 1) =>
                    /\ trace[e + 1].ev = "mark_status"
                    /\ trace[e + 1].row = i - 1
    /\ \A e, f \in RowCalls \cup EventsOf("mark_status") :
         e < f => trace[e].row <= trace[f].row
    /\ \A e, f \in RowCalls :
         (e < f /\ trace[e].row = trace[f].row) =>
            trace[e].ev = "get_meter_value" /\ trace[f].ev = "update_meter"
    /\ WorkerRunning => ~ui.start_btn

C19_Witness ==
    /\ pc = "mark"
    /\ idx = 1
    /\ Cardinality(RowCalls) = 4
    /\ \A i \in 1..2 :
         /\ Cardinality(CallsFor("get_meter_value", i - 1)) = 1
         /\ Cardinality(CallsFor("update_meter", i - 1)) = 1
    /\ EventsOf("mark_status") = { e + 1 : e \in CallsFor("update_meter", 0) }

(***************************************************************************)
(* C20: in a run the four counters start at 0 and never decrease; a step   *)
(* changes at most one counter, by exactly 1, and a row changes at most    *)
(* one; every statistics snapshot is componentwise >= the one before it;   *)
(* when the run completes normally the four counters and the number of     *)
(* rows with no identifier add up to the number of rows.                   *)
(***************************************************************************)
CounterNames == {"successful", "failed", "skipped", "already_processed"}

Total(c) == c.successful + c.failed + c.skipped + c.already_processed

Leq(a, b) == \A k \in CounterNames : a[k] <= b[k]

CountersStartAtZero ==
    /\ pc \in {"idle", "auth", "load"} => cnt = ZeroCounters
    /\ \A e \in EventsOf("stats") :
         (\A f \in EventsOf("stats") : e <= f) => trace[e].c = ZeroCounters

SnapshotsGrow ==
    /\ \A e, f \in EventsOf("stats") : e < f => Leq(trace[e].c, trace[f].c)
    /\ \A e \in EventsOf("stats") : Leq(trace[e].c, cnt)

OneCounterPerRow ==
    \A i \in 1..Len(cls) :
        (Resolved(i) /\ ~LacksIdentifier(df[i].Interno)) =>
            /\ trace[ProgressAt(i) + 1].ev = "stats"
            /\ Leq(trace[ProgressAt(i) + 1].c, trace[SegmentEnd(i)].c)
            /\ Total(trace[SegmentEnd(i)].c) = Total(trace[ProgressAt(i) + 1].c) + 1

CountersAddUp ==
    (RunOver /\ LastEvent = EvFinished(TRUE)) =>
        Total(cnt) + Cardinality({ j \in 1..Len(df) : LacksIdentifier(df[j].Interno) })
            = Len(df)

CounterStep ==
    \/ cnt' = cnt
    \/ \E k \in CounterNames : cnt' = [cnt EXCEPT ![k] = @ + 1]

C20_CountersGrowAndAddUp ==
    /\ [](CountersStartAtZero /\ SnapshotsGrow /\ OneCounterPerRow /\ CountersAddUp)
    /\ [][CounterStep]_vars

C20_Witness ==
    /\ RunOver
    /\ LastEvent = EvFinished(TRUE)
    /\ cls = << "update_failed", "no_identifier" >>
    /\ cnt = [ZeroCounters EXCEPT !.failed = 1]
    /\ Cardinality(EventsOf("stats")) = 2

(***************************************************************************)
(* C21: one worker at a time                                               *)
(***************************************************************************)
\* a worker is between start_update and the handling of its completion event
Busy == WorkerRunning \/ pending_finished # << >>

\* the step creates and starts a worker
StartsWorker == runs_left' = runs_left - 1

\* the step is select_file or on_finished
WindowHandlerStep ==
    /\ ~StartsWorker
    /\ ui' # ui \/ (pending_finished # << >> /\ pending_finished' = << >>)

\* the step is one of the worker's
WorkerStep == ~StartsWorker /\ (pc' # pc \/ idx' # idx \/ trace' # trace)

\* what a run owns: the workbook, the platform's values, the client's
\* session, the frame, the position, the counters and the history
RunState ==
    << file, remote, token, df, idx, cnt, contador_actual, nuevo_valor, trace, cls, pc >>

OneWorkerStep ==
    /\ StartsWorker => ~Busy /\ ~ui'.start_btn /\ ~ui'.select_btn
    /\ WindowHandlerStep => ~WorkerRunning /\ UNCHANGED RunState
    /\ WorkerStep => WorkerRunning /\ ui' = ui

\* C21: while a worker is running or its completion event is not yet
\* handled, the start and the file-select buttons are disabled; a worker is
\* started only when no other is running or waiting to be handled, so the
\* workbook and the session belong to one run at a time; select_file and
\* on_finished leave the workbook, the session, the counters and the rows
\* untouched, and the worker leaves the buttons untouched.
C21_OneWorkerAtATime ==
    /\ [](Busy => ~ui.start_btn /\ ~ui.select_btn)
    /\ [][OneWorkerStep]_vars

\* a second run is at work on the workbook after the first one was handled
C21_Witness ==
    /\ prev.started
    /\ WorkerRunning
    /\ trace # << >>
    /\ ~ui.start_btn /\ ~ui.select_btn

(***************************************************************************)
(* C22: the cells mark_status writes                                       *)
(***************************************************************************)
\* the columns of a row of the model
Columns == { DataColumns[k] : k \in 1..Len(DataColumns) } \cup { "Estado" }

\* the cell of sheet row header_row + j in a column; a row the sheet does not
\* have is made of empty cells
SheetCell(wb, j, col) == IF j <= Len(wb.rows) THEN wb.rows[j][col] ELSE NaNCell

\* the rows either workbook has
RowsOf(wb, after) ==
    1..(IF Len(wb.rows) > Len(after.rows) THEN Len(wb.rows) ELSE Len(after.rows))

\* the status lands in sheet row header_row + 1 + i of the "Estado" column
WritesTheCell(wb, after, i, s) ==
    LET excel_row == header_row + 1 + i
    IN  SheetCell(after, excel_row - header_row, "Estado") = Txt(s)

\* every other cell keeps its content
OtherCellsKept(wb, after, i) ==
    \A j \in RowsOf(wb, after), col \in Columns :
        (j # header_row + 1 + i - header_row \/ col # "Estado")
            => SheetCell(after, j, col) = SheetCell(wb, j, col)

\* the header is where it was, or is created in the column that follows the
\* last used one when there was none
HeaderNextToLastColumn(wb, after) ==
    IF wb.estado_cols = {}
    THEN after.estado_cols = {wb.max_column + 1}
    ELSE after.estado_cols = wb.estado_cols /\ after.max_column = wb.max_column

\* there is one "Estado" column and no more
OneEstadoColumn(wb) == Cardinality(wb.estado_cols) = 1

\* C22: on every workbook that calls of mark_status can produce, and for
\* every row index i and status s, mark_status(file, i, s) puts s in the
\* cell of sheet row header_row + 1 + i of the "Estado" column, leaves every
\* other cell as it was, keeps the "Estado" header where it is or, when no
\* header cell reads "Estado", creates it one column past the last used
\* column, and the workbook never has a second "Estado" column.
C22_MarkStatusFrame ==
    \A i \in MarkIndexes, s \in MarkStatuses :
        LET after == mark_status(file, i, s)
        IN  /\ WritesTheCell(file, after, i, s)
            /\ OtherCellsKept(file, after, i)
            /\ HeaderNextToLastColumn(file, after)
            /\ OneEstadoColumn(after)
            /\ Cardinality(file.estado_cols) <= 1

====
